---- MODULE Spec2Model ----
(***************************************************************************)
(* The video-playback session controller of VideoPlayerScreen.tsx: the     *)
(* React state of the screen, the debounced progress save (helpers'        *)
(* debounce), the 1 Hz session timer effect, the AppState effect with its  *)
(* cleanup, and the handlers of the WebView bridge messages.               *)
(*                                                                         *)
(* Units.  The clock `now` counts seconds.  Playback positions are kept in *)
(* tenths of a second (the player reports floating point seconds), the     *)
(* stored lastPosition in whole seconds (Math.floor), percentages in       *)
(* tenths of a percent (toFixed(1)).                                       *)
(*                                                                         *)
(* One action is one event of the JS event loop: the handler, the render   *)
(* it causes and the effects (cleanups first, then bodies) of that render. *)
(* The clock has a granularity of one second: the environment (player      *)
(* messages, touches, navigation, app state) delivers at most one event    *)
(* per second, while timers and answers of the WebView run when due.       *)
(***************************************************************************)
EXTENDS Integers, Sequences, FiniteSets, TLC

VARIABLES
    phase,                 \* "init" | "mounted" | "unmounted" (screen component)
    isLoading,             \* useState isLoading
    videoData,             \* useState videoData: None or Some([duration, progress])
    userPrefs,             \* useState userPrefs: None or Some(defaultSessionDuration), minutes
    sessionEndTime,        \* useState sessionEndTime: NoTime or absolute second
    isPlayerReady,         \* useState isPlayerReady
    playerBuilt,           \* the page in the WebView has its player and onPlayerReady has run
    currentPlaybackTime,   \* useState currentPlaybackTime (tenths of a second)
    sessionTimeRemaining,  \* useState sessionTimeRemaining (seconds)
    isFocused,             \* useIsFocused()
    appState,              \* appState.current
    tickDue,               \* sessionTimerIntervalRef: NoTime or the next tick instant
    timeouts,              \* pending setTimeout callbacks of all debounce instances
    pendingReq,            \* scripts injected into the WebView, not yet answered
    store,                 \* the remote document's progress field
    writes,                \* every update() issued to the store, in order
    endAlert,              \* a 'Session Ended' alert is on screen
    notice,                \* the last other alert shown, NoNotice before the first
    now,                   \* wall clock, seconds
    skipped,               \* seconds passed in LongWait steps
    busy,                  \* an external event was handled in the current second
    toggles,               \* focus / app-state changes so far
    events,                \* player messages and touches so far
    session,               \* the screen instance: 1 for the first opening of the video
    hist,                  \* history of the session, for the properties
    reminder               \* a call of scheduleSessionNotification: None or Some(call)

vars == <<phase, isLoading, videoData, userPrefs, sessionEndTime, isPlayerReady,
          playerBuilt, currentPlaybackTime, sessionTimeRemaining, isFocused,
          appState, tickDue, timeouts, pendingReq, store, writes, endAlert,
          notice, now, skipped, busy, toggles, events, session, hist, reminder>>

\* a nullable object is a sequence of length 0 or 1; a nullable timestamp or
\* interval handle is 0 when unset (the code tests them for truthiness)
None == <<>>
Some(x) == <<x>>
NoTime == 0
NoNotice == "none"
NoFallback == -1

\* ---------------------------------------------------------------- bounds
MaxTime == 6
MaxEvents == 2
MaxToggles == 2
MaxExtends == 2
MaxSessions == 2
MaxPlay == 8
MaxClock == 3
MaxScheduled == 10

\* ---------------------------------------------------- program constants
DebounceDelay == 3
TickPeriod == 1
ExtendMinutes == 5
FallbackMinutes == 30
CompleteThreshold == 98
SecondsPerMinute == 60
ReminderLead == 5

\* ------------------------------------------------------------ input sets
\* durations of the video record in seconds (0: convertISO8601ToSeconds found none)
Durations == {0, 600}
\* positions the player reports, tenths of a second
Positions == {5878, 5950}
\* lastPosition of the record when the session opens, whole seconds
StoredPositions == {0, 300}
\* preferences.defaultSessionDuration of the user document, minutes
PrefDurations == {-1, 0, 30}

Max(a, b) == IF a >= b THEN a ELSE b
Min(a, b) == IF a <= b THEN a ELSE b

\* ------------------------------------------------------- pure functions
\* Number.prototype.toFixed: nearest, the larger one on a tie (n / d >= 0)
RoundHalfUp(n, d) == (2 * n + d) \div (2 * d)

\* Math.min(100, (position / duration) * 100).toFixed(1), in tenths of a percent
CompletionPercentage(position, duration) ==
    RoundHalfUp(Min(1000 * duration, position * 100), duration)

\* completionPercentage >= 98, on the value before toFixed
AtThreshold(position, duration) == position * 10 >= CompleteThreshold * duration

\* Math.floor(position), seconds
Floor(position) == position \div 10

\* the VideoProgress object built by the debounced function
NewProgress(position, isCompleted, duration) ==
    [lastPosition |-> Floor(position),
     completionPercentage |-> CompletionPercentage(position, duration),
     completed |-> isCompleted \/ AtThreshold(position, duration),
     lastUpdated |-> now]

\* (endedAtPosition / (videoData?.duration || 1)) * 100 >= 98
FinalFlag(position, vd) ==
    LET d == IF vd = None \/ vd[1].duration = 0 THEN 1 ELSE vd[1].duration
    IN  position * 10 >= CompleteThreshold * d

\* the record a session finds in the store: written by AddVideo (all zero) or
\* by an earlier session that stopped at second p
InitialProgress(p, duration) ==
    [lastPosition |-> p,
     completionPercentage |-> IF duration = 0 THEN 0
                              ELSE CompletionPercentage(p * 10, duration),
     completed |-> duration # 0 /\ AtThreshold(p * 10, duration),
     lastUpdated |-> 0]

\* ------------------------------------------------------------- debounce
\* One record per scheduled setTimeout.  cur marks the timeout of the
\* debounce instance the current render holds; vd and foc are the videoData
\* (loaded or not) and isFocused that instance's closure captured, ses the
\* screen instance whose setVideoData it captured.
IsCur(r) == r.cur
NotCur(r) == ~r.cur

\* calling the current debounced function: clearTimeout, then setTimeout
debounce(ts, position, isCompleted) ==
    Append(SelectSeq(ts, NotCur),
           [due |-> now + DebounceDelay, pos |-> position, done |-> isCompleted,
            vd |-> videoData # None, foc |-> isFocused, cur |-> TRUE,
            ses |-> session])

\* useCallback returns a new debounced function: the old one keeps its timeout
Orphan(ts) == [i \in 1..Len(ts) |-> [ts[i] EXCEPT !.cur = FALSE]]

\* injectJavaScript: the script runs later in the WebView
Inject(q, type, fallback) == Append(q, [type |-> type, fallback |-> fallback])

WebViewMounted(loading, vd) == ~loading /\ vd # None

\* the part of the page's text that varies: start: Math.floor(lastPosition || 0)
playerHtml(vd) == vd[1].progress.lastPosition

\* source={{ html: playerHtml }} of the render differs from the one before:
\* the WebView loads the new page, the old page and its player are gone
Reloaded(before, after) ==
    before # None /\ after # None /\ playerHtml(before) # playerHtml(after)

\* ------------------------------------------------------------------ Init
\* The screen has mounted, its effects have run once (no timer, the AppState
\* listener registered) and fetchInitialData is in flight.
InitScreen ==
    /\ phase = "mounted"
    /\ isLoading = TRUE
    /\ videoData = None
    /\ userPrefs = None
    /\ sessionEndTime = NoTime
    /\ isPlayerReady = FALSE
    /\ playerBuilt = FALSE
    /\ currentPlaybackTime = 0
    /\ sessionTimeRemaining = 0
    /\ isFocused = TRUE
    /\ appState = "active"
    /\ tickDue = NoTime
    /\ timeouts = <<>>
    /\ pendingReq = <<>>
    /\ store \in {None} \cup
                 {Some([duration |-> d, progress |-> InitialProgress(p, d)]) :
                      d \in Durations, p \in StoredPositions}
    /\ writes = <<>>
    /\ endAlert = FALSE
    /\ notice = NoNotice
    /\ now = 0
    /\ skipped = 0
    /\ busy = FALSE
    /\ toggles = 0
    /\ events = 0
    /\ session = 1
    /\ hist = [expirySignals |-> 0, term |-> None, ended |-> None,
               left |-> None, extends |-> 0, exit |-> None, tu |-> None,
               other |-> FALSE, foreign |-> FALSE, dropped |-> FALSE,
               seek |-> None, readies |-> 0, bg |-> None, opened |-> None,
               gap |-> FALSE]

\* the player screen opens; no reminder is being scheduled
Init == InitScreen /\ reminder = None

Mounted == phase = "mounted"

\* the screen shows the player and its buttons and takes touches
Interactive ==
    /\ Mounted /\ ~isLoading /\ videoData # None
    /\ isFocused /\ appState = "active" /\ ~endAlert

\* ------------------------------------------------------ render + effects
\* a timer that keeps the displayed time in memory and counts it down
RemainingDecremented(endTime) == Max(0, sessionTimeRemaining - TickPeriod)

\* updateTimer: Math.max(0, Math.floor((sessionEndTime - now) / 1000))
Remaining(endTime) == Max(0, endTime - now)

\* updateTimer found remaining <= 0 and asked the Bridge for the current time
Signal(h) == [h EXCEPT !.expirySignals = Min(2, @ + 1)]

\* The render after a handler changed state (the primed state variables are
\* set by the caller) and the effects whose dependencies changed: the
\* cleanup of the AppState effect calls the debounced function it captured
\* with the position it captured, useCallback re-creates the debounced
\* function, the timer effect clears its interval, runs updateTimer once and
\* sets a new interval.
Render(ts, q, h, vdChanged) ==
    LET saveChanged == vdChanged \/ isFocused' # isFocused
        appDeps == \/ saveChanged
                   \/ isPlayerReady' # isPlayerReady
                   \/ currentPlaybackTime' # currentPlaybackTime
        ts1 == IF appDeps /\ currentPlaybackTime > 0 /\ videoData # None
               THEN debounce(ts, currentPlaybackTime, FALSE) ELSE ts
        ts2 == IF saveChanged THEN Orphan(ts1) ELSE ts1
        timerDeps == \/ sessionEndTime' # sessionEndTime
                     \/ isFocused' # isFocused
                     \/ currentPlaybackTime' # currentPlaybackTime
        run == sessionEndTime' # NoTime /\ isFocused'
        remaining == Remaining(sessionEndTime')
        expired == timerDeps /\ run /\ remaining <= 0
        h1 == IF sessionEndTime' # sessionEndTime
              THEN [h EXCEPT !.expirySignals = 0] ELSE h
    IN  /\ timeouts' = ts2
        /\ tickDue' = IF timerDeps
                      THEN (IF run THEN now + TickPeriod ELSE NoTime)
                      ELSE tickDue
        /\ sessionTimeRemaining' = IF timerDeps /\ run THEN remaining
                                   ELSE sessionTimeRemaining
        /\ pendingReq' = IF expired /\ WebViewMounted(isLoading', videoData')
                         THEN Inject(q, "SESSION_END_REQUEST", currentPlaybackTime')
                         ELSE q
        /\ hist' = IF expired /\ WebViewMounted(isLoading', videoData')
                   THEN Signal(h1) ELSE h1

\* ------------------------------------------------------ fetchInitialData
\* a load that starts the session timer before it tests its preconditions
FetchAbortTimed(reason) ==
    /\ Mounted /\ isLoading
    /\ reason = "notFound" => store = None
    /\ phase' = "unmounted"
    /\ notice' = reason
    /\ sessionEndTime' = now + FallbackMinutes * SecondsPerMinute
    /\ isLoading' = (reason = "noUser")
    /\ UNCHANGED <<videoData, userPrefs, isPlayerReady, playerBuilt,
                   currentPlaybackTime, sessionTimeRemaining, isFocused, appState,
                   tickDue, timeouts, pendingReq, store, writes, endAlert, now,
                   skipped, busy, toggles, hist, events, session>>
    /\ UNCHANGED reminder

\* no authenticated user, no such video document, or the read failed
FetchAbort(reason) ==
    /\ Mounted /\ isLoading
    /\ reason = "notFound" => store = None
    /\ phase' = "unmounted"
    /\ notice' = reason
    \* finally { setIsLoading(false) } is not reached without a user
    /\ isLoading' = (reason = "noUser")
    /\ UNCHANGED <<videoData, userPrefs, sessionEndTime, isPlayerReady,
                   currentPlaybackTime, sessionTimeRemaining, isFocused, appState,
                   tickDue, timeouts, pendingReq, store, writes, endAlert, now,
                   skipped, busy, toggles, hist>>
    /\ UNCHANGED <<events, session>>
    /\ UNCHANGED playerBuilt
    /\ UNCHANGED reminder

\* preferences kept only for a session that is started
LoadedPrefsIfPositive(d) == IF d > 0 THEN Some(d) ELSE None

\* setUserPrefs({ defaultSessionDuration: defaultDuration })
LoadedPrefs(d) == Some(d)

\* history: the stored position the first session found
Opened(h) ==
    IF h.opened = None
    THEN [h EXCEPT !.opened = Some(store[1].progress.lastPosition)] ELSE h

\* both documents were read; pref is the user's defaultSessionDuration, None
\* when the user document does not exist
FetchOk(pref) ==
    /\ Mounted /\ isLoading /\ store # None
    /\ videoData' = store
    /\ currentPlaybackTime' = store[1].progress.lastPosition * 10
    /\ LET defaultDuration == IF pref = None \/ pref[1] = 0 THEN FallbackMinutes ELSE pref[1]
       IN  /\ userPrefs' = LoadedPrefs(defaultDuration)
           /\ sessionEndTime' = IF defaultDuration > 0
                                THEN now + defaultDuration * SecondsPerMinute
                                ELSE NoTime
    /\ isLoading' = FALSE
    /\ UNCHANGED <<phase, isPlayerReady, isFocused>>
    /\ Render(timeouts, pendingReq, Opened(hist), TRUE)
    /\ UNCHANGED <<appState, store, writes, endAlert, notice, now, skipped,
                   busy, toggles>>
    /\ UNCHANGED <<events, session>>
    /\ UNCHANGED playerBuilt
    /\ UNCHANGED reminder

\* The video document was read and rendered (setVideoData, setCurrentPlaybackTime)
\* and the read of the user document failed: the catch branch alerts and goes
\* back, finally clears isLoading.  The unmount runs the cleanup of the AppState
\* effect, which calls the debounced function of the render that had the video.
FetchPrefsFailed ==
    /\ Mounted /\ isLoading /\ store # None
    /\ phase' = "unmounted"
    /\ notice' = "error"
    /\ videoData' = store
    /\ isLoading' = FALSE
    /\ LET position == store[1].progress.lastPosition * 10
           armed == debounce(Orphan(timeouts), position, FALSE)
       IN  timeouts' = IF position > 0
                       THEN Orphan([armed EXCEPT ![Len(armed)].vd = TRUE])
                       ELSE timeouts
    /\ isFocused' = FALSE
    /\ UNCHANGED <<userPrefs, sessionEndTime, isPlayerReady, playerBuilt,
                   currentPlaybackTime, sessionTimeRemaining, appState, tickDue,
                   pendingReq, store, writes, endAlert, now, skipped, busy,
                   toggles, hist, events, session>>
    /\ UNCHANGED reminder

\* --------------------------------------------------- handleWebViewMessage
\* handleFinalSessionEnd(endedAtPosition) on the pending timeouts ts
handleFinalSessionEnd(ts, endedAtPosition) ==
    debounce(ts, endedAtPosition, FinalFlag(endedAtPosition, videoData))

\* history: an external event other than a TimeUpdate happened
Other(h) == [h EXCEPT !.other = TRUE]

\* history: the TimeUpdate events so far, the first one of them at second
\* first, the last one reporting position last
Updated(h, t) ==
    IF h.tu = None
    THEN [h EXCEPT !.tu = Some([first |-> now, last |-> t, nw |-> Len(writes)])]
    ELSE IF now - h.tu[1].first < DebounceDelay
    THEN [h EXCEPT !.tu = Some([h.tu[1] EXCEPT !.last = t])]
    ELSE Other(h)

\* history: the first request to terminate, and the writes issued before it
Terminated(h, position) ==
    IF h.term = None
    THEN [h EXCEPT !.term = Some([pos |-> position, nw |-> Len(writes)])]
    ELSE h

\* the player can send messages: the WebView exists and onPlayerReady has run
PlayerUp == Mounted /\ WebViewMounted(isLoading, videoData) /\ playerBuilt

\* a handler that seeks on every PLAYER_READY
SoughtAlways(h) ==
    [h EXCEPT !.seek = Some(currentPlaybackTime), !.readies = Min(2, @ + 1)]

\* history: the seek the PLAYER_READY handler injected, None when it injected none
Sought(h) ==
    [h EXCEPT !.seek = IF currentPlaybackTime > 0
                       THEN Some(currentPlaybackTime) ELSE None,
              !.readies = Min(2, @ + 1)]

\* { type: 'PLAYER_READY' }
PlayerReady ==
    /\ ~busy
    /\ busy' = TRUE
    /\ Mounted /\ WebViewMounted(isLoading, videoData) /\ ~playerBuilt
    /\ playerBuilt' = TRUE
    /\ isPlayerReady' = TRUE
    /\ UNCHANGED <<phase, isLoading, videoData, userPrefs, sessionEndTime,
                   currentPlaybackTime, isFocused>>
    /\ Render(timeouts, pendingReq, Sought(hist), FALSE)
    /\ UNCHANGED <<appState, store, writes, endAlert, notice, now, skipped,
                   toggles>>
    /\ UNCHANGED <<events, session>>
    /\ UNCHANGED reminder

\* a position that only moves forward
LatestForward(prev, t) == Max(prev, t)

\* setCurrentPlaybackTime(message.currentTime)
Latest(prev, t) == t

\* case 'TIME_UPDATE' of handleWebViewMessage, and the render after it
handleTimeUpdate(t) ==
    /\ events' = events + 1
    /\ PlayerUp /\ ~busy
    /\ busy' = TRUE
    /\ currentPlaybackTime' = Latest(currentPlaybackTime, t)
    /\ UNCHANGED <<phase, isLoading, videoData, userPrefs, sessionEndTime,
                   isPlayerReady, isFocused>>
    /\ Render(debounce(timeouts, t, FALSE), pendingReq, Updated(hist, t), FALSE)
    /\ UNCHANGED <<appState, store, writes, endAlert, notice, now, skipped, toggles>>
    /\ UNCHANGED <<playerBuilt, session>>
    /\ UNCHANGED reminder

\* { type: 'TIME_UPDATE', currentTime: t } sent by the player's 1 Hz interval
TimeUpdate(t) ==
    /\ events < MaxEvents
    /\ handleTimeUpdate(t)

\* { type: 'PLAYER_STATE_CHANGE', playerState: state, currentTime: t }
StateChange(state, t) ==
    /\ events < MaxEvents
    /\ events' = events + 1
    /\ UNCHANGED session
    /\ PlayerUp /\ ~busy
    /\ busy' = TRUE
    /\ timeouts' = CASE state = "PAUSED" -> debounce(timeouts, t, FALSE)
                     [] state = "ENDED" -> debounce(timeouts, t, TRUE)
                     [] OTHER -> timeouts
    /\ hist' = IF state = "ENDED"
               THEN [Other(hist) EXCEPT !.ended = Some([pos |-> t, at |-> now,
                                                        ev |-> events + 1])]
               ELSE Other(hist)
    /\ UNCHANGED <<phase, isLoading, videoData, userPrefs, sessionEndTime,
                   isPlayerReady, currentPlaybackTime, sessionTimeRemaining,
                   isFocused, appState, tickDue, pendingReq, store, writes,
                   endAlert, notice, now, skipped, toggles>>
    /\ UNCHANGED playerBuilt
    /\ UNCHANGED reminder

\* event.nativeEvent.data that carries none of the five messages: text that
\* is not JSON, the JSON null, an object without type, an unknown type
Payloads == {"notJSON", "null", "noType", "unknownType"}

MessageTypes == {"PLAYER_READY", "PLAYER_STATE_CHANGE", "TIME_UPDATE",
                 "SESSION_END_REQUEST", "PLAYER_ERROR"}

\* JSON.parse(data) followed by the read of message.type: the type read, or
\* "throws" (SyntaxError of the parse, TypeError of null.type)
TypeRead(data) ==
    CASE data = "notJSON" -> "throws"
      [] data = "null" -> "throws"
      [] data = "noType" -> "undefined"
      [] OTHER -> "UNKNOWN"

\* a handler without the try block: the exception leaves it
Uncaught(type) == type # "throws"

\* try { ... } catch (e) { console.error(...) }: the handler returns
Caught(type) == TRUE

\* a message that is none of the five: the parse throws into the catch, or
\* no case of the switch matches
BadMessage(data) ==
    /\ events < MaxEvents
    /\ events' = events + 1
    /\ ~busy
    /\ busy' = TRUE
    /\ Mounted /\ WebViewMounted(isLoading, videoData)
    /\ TypeRead(data) \notin MessageTypes
    /\ phase' = IF Caught(TypeRead(data)) THEN phase ELSE "crashed"
    /\ hist' = [hist EXCEPT !.dropped = TRUE]
    /\ UNCHANGED <<isLoading, videoData, userPrefs, sessionEndTime,
                   isPlayerReady, currentPlaybackTime, sessionTimeRemaining,
                   isFocused, appState, tickDue, timeouts, pendingReq, store,
                   writes, endAlert, notice, now, skipped, toggles, session>>
    /\ UNCHANGED playerBuilt
    /\ UNCHANGED reminder

\* a handler that ends the session when the player reports an error
PlayerErrorEnds ==
    /\ ~busy
    /\ busy' = TRUE
    /\ Mounted /\ WebViewMounted(isLoading, videoData)
    /\ notice # "playerError"
    /\ notice' = "playerError"
    /\ timeouts' = handleFinalSessionEnd(timeouts, currentPlaybackTime)
    /\ endAlert' = TRUE
    /\ hist' = Other(hist)
    /\ UNCHANGED <<phase, isLoading, videoData, userPrefs, sessionEndTime,
                   isPlayerReady, currentPlaybackTime, sessionTimeRemaining,
                   isFocused, appState, tickDue, pendingReq, store, writes,
                   now, skipped, toggles, events, session>>
    /\ UNCHANGED playerBuilt
    /\ UNCHANGED reminder

\* { type: 'PLAYER_ERROR', errorCode }
PlayerError ==
    /\ ~busy
    /\ busy' = TRUE
    /\ Mounted /\ WebViewMounted(isLoading, videoData)
    /\ notice # "playerError"
    /\ notice' = "playerError"
    /\ hist' = Other(hist)
    /\ UNCHANGED <<phase, isLoading, videoData, userPrefs, sessionEndTime,
                   isPlayerReady, currentPlaybackTime, sessionTimeRemaining,
                   isFocused, appState, tickDue, timeouts, pendingReq, store,
                   writes, endAlert, now, skipped, toggles>>
    /\ UNCHANGED <<events, session>>
    /\ UNCHANGED playerBuilt
    /\ UNCHANGED reminder

\* What an injected script posts: player.getCurrentTime() is t when the page
\* has its player, else the call throws and the catch branch posts the
\* fallback the script carries, or nothing when it carries none.
Answer(req, t) ==
    IF playerBuilt THEN Some(t)
    ELSE IF req.fallback # NoFallback THEN Some(req.fallback)
    ELSE None

\* history: the position the app last took on going to the background, the
\* second it took it and the external events up to then
Backgrounded(h, position) ==
    [h EXCEPT !.bg = Some([pos |-> position, at |-> now, ev |-> events])]

\* The WebView runs the oldest injected script and the message it posts is
\* handled: the player's current time t when player.getCurrentTime() works,
\* the fallback of the script's catch branch when it throws.
BridgeRespond(t) ==
    /\ Mounted /\ pendingReq # <<>>
    /\ LET req == Head(pendingReq)
           answered == Answer(req, t) # None
           time == IF answered THEN Answer(req, t)[1] ELSE 0
       IN  /\ IF ~answered
              THEN \* catch(e) { /* ignore if player not ready */ }
                   /\ pendingReq' = Tail(pendingReq)
                   /\ UNCHANGED <<currentPlaybackTime, sessionTimeRemaining,
                                  tickDue, timeouts, endAlert, hist>>
              ELSE IF req.type = "SESSION_END_REQUEST"
              THEN /\ timeouts' = handleFinalSessionEnd(timeouts, time)
                   /\ endAlert' = TRUE
                   /\ hist' = Other(Terminated(hist, time))
                   /\ pendingReq' = Tail(pendingReq)
                   /\ UNCHANGED <<currentPlaybackTime, sessionTimeRemaining, tickDue>>
              ELSE \* TIME_UPDATE asked for on backgrounding
                   /\ currentPlaybackTime' = Latest(currentPlaybackTime, time)
                   /\ UNCHANGED <<isLoading, videoData, sessionEndTime,
                                  isPlayerReady, isFocused>>
                   /\ Render(debounce(timeouts, time, FALSE), Tail(pendingReq),
                             Backgrounded(hist, time), FALSE)
                   /\ UNCHANGED endAlert
    /\ UNCHANGED <<phase, isLoading, videoData, userPrefs, sessionEndTime,
                   isPlayerReady, isFocused, appState, store, writes, notice,
                   now, skipped, busy, toggles>>
    /\ UNCHANGED <<events, session>>
    /\ UNCHANGED playerBuilt
    /\ UNCHANGED reminder

\* ------------------------------------------------------------- timers
\* The interval callback updateTimer of the session timer effect.
TimerTick ==
    /\ Mounted /\ tickDue # NoTime /\ tickDue <= now
    /\ LET remaining == Remaining(sessionEndTime)
       IN  /\ sessionTimeRemaining' = remaining
           /\ IF remaining <= 0
              THEN /\ tickDue' = NoTime
                   /\ IF WebViewMounted(isLoading, videoData)
                      THEN /\ pendingReq' = Inject(pendingReq, "SESSION_END_REQUEST",
                                                   currentPlaybackTime)
                           /\ hist' = Signal(hist)
                      ELSE UNCHANGED <<pendingReq, hist>>
              ELSE /\ tickDue' = tickDue + TickPeriod
                   /\ UNCHANGED <<pendingReq, hist>>
    /\ UNCHANGED <<phase, isLoading, videoData, userPrefs, sessionEndTime,
                   isPlayerReady, currentPlaybackTime, isFocused, appState,
                   timeouts, store, writes, endAlert, notice, now, skipped,
                   busy, toggles>>
    /\ UNCHANGED <<events, session>>
    /\ UNCHANGED playerBuilt
    /\ UNCHANGED reminder

\* history: a timeout of an earlier screen instance writes after the current
\* instance has loaded the record
Overlapped(h, r) ==
    IF Mounted /\ r.ses # session /\ videoData # None
    THEN [h EXCEPT !.foreign = TRUE] ELSE h

\* a save that schedules itself again when the update is rejected
FailedRetried(rest, r) == Append(rest, [r EXCEPT !.due = now + DebounceDelay])

\* catch (error) { console.error(...) }: the timeouts left after a failed write
Failed(rest, r) == rest

\* a save that does not look at the focus its closure captured
ReturnsEarlyFocusBlind(r, duration) == ~r.vd \/ duration = 0

\* if (!videoData || videoData.duration === 0 || !isFocused) return
ReturnsEarly(r, duration) == ~r.vd \/ duration = 0 \/ ~r.foc

\* The oldest debounce timeout is due and runs the async save function with
\* the arguments of the last call; ok is the outcome of the store's update().
FlushTimeout(ok) ==
    /\ timeouts # <<>> /\ Head(timeouts).due <= now
    /\ LET r == Head(timeouts)
           rest == Tail(timeouts)
           \* the videoData the closure captured: the record's duration is fixed
           duration == IF r.vd THEN store[1].duration ELSE 0
           h == Overlapped(hist, r)
       IN  IF ReturnsEarly(r, duration)
           THEN /\ ok
                /\ timeouts' = rest
                /\ UNCHANGED <<videoData, sessionTimeRemaining, tickDue, pendingReq,
                               store, writes, hist, playerBuilt>>
           ELSE LET newProgress == NewProgress(r.pos, r.done, duration)
                IN  /\ writes' = Append(writes, newProgress)
                    /\ IF ~ok
                       THEN /\ timeouts' = Failed(rest, r)
                            /\ hist' = h
                            /\ UNCHANGED <<videoData, sessionTimeRemaining, tickDue,
                                           pendingReq, store, playerBuilt>>
                       ELSE /\ store' = Some([store[1] EXCEPT !.progress = newProgress])
                            /\ IF Mounted /\ r.ses = session
                               THEN \* setVideoData(prev => prev ? {...} : null)
                                    /\ videoData' = IF videoData = None THEN None
                                                    ELSE Some([videoData[1] EXCEPT
                                                                 !.progress = newProgress])
                                    /\ UNCHANGED <<isLoading, sessionEndTime,
                                                   isPlayerReady, currentPlaybackTime,
                                                   isFocused>>
                                    /\ Render(rest, pendingReq, h, TRUE)
                                    /\ playerBuilt' = (playerBuilt /\
                                                       ~Reloaded(videoData, videoData'))
                               ELSE \* setVideoData of an unmounted screen: no effect
                                    /\ timeouts' = rest
                                    /\ hist' = h
                                    /\ UNCHANGED <<videoData, sessionTimeRemaining,
                                                   tickDue, pendingReq, playerBuilt>>
    /\ UNCHANGED <<phase, isLoading, userPrefs, sessionEndTime, isPlayerReady,
                   currentPlaybackTime, isFocused, appState, endAlert, notice, now,
                   skipped, busy, toggles>>
    /\ UNCHANGED <<events, session>>
    /\ UNCHANGED reminder

\* nothing is due and no script is waiting in the WebView
Quiet ==
    /\ IF timeouts = <<>> THEN TRUE ELSE Head(timeouts).due > now
    /\ IF tickDue = NoTime THEN TRUE ELSE tickDue > now
    /\ pendingReq = <<>>

\* one second passes
Advance ==
    /\ Quiet
    /\ now - skipped < MaxTime
    /\ now' = now + 1
    /\ busy' = FALSE
    /\ UNCHANGED <<phase, isLoading, videoData, userPrefs, sessionEndTime,
                   isPlayerReady, currentPlaybackTime, sessionTimeRemaining,
                   isFocused, appState, tickDue, timeouts, pendingReq, store,
                   writes, endAlert, notice, skipped, toggles, hist>>
    /\ UNCHANGED <<events, session>>
    /\ UNCHANGED playerBuilt
    /\ UNCHANGED reminder

\* The session runs undisturbed from its first second up to its last one:
\* only the interval ticks, each of which finds remaining > 0 and sets the
\* displayed time.
LongWait ==
    /\ Mounted /\ timeouts = <<>> /\ pendingReq = <<>>
    /\ now = skipped
    /\ sessionEndTime # NoTime /\ sessionEndTime - 1 > now
    /\ now' = sessionEndTime - 1
    /\ skipped' = skipped + (sessionEndTime - 1 - now)
    /\ busy' = FALSE
    /\ IF tickDue # NoTime
       THEN /\ tickDue' = now' + TickPeriod
            /\ sessionTimeRemaining' = IF tickDue <= now' THEN sessionEndTime - now'
                                       ELSE sessionTimeRemaining
       ELSE UNCHANGED <<tickDue, sessionTimeRemaining>>
    /\ UNCHANGED <<phase, isLoading, videoData, userPrefs, sessionEndTime,
                   isPlayerReady, currentPlaybackTime, isFocused, appState,
                   timeouts, pendingReq, store, writes, endAlert, notice,
                   toggles, hist>>
    /\ UNCHANGED <<events, session>>
    /\ UNCHANGED playerBuilt
    /\ UNCHANGED reminder

\* ------------------------------------------------------- user actions
\* history: Save & Exit was pressed before the player was ready
Exited(h) ==
    IF h.exit = None
    THEN [Other(h) EXCEPT !.exit = Some([pos |-> currentPlaybackTime,
                                         nw |-> Len(writes)])]
    ELSE Other(h)

\* the Save & Exit button
handleSaveAndExit ==
    /\ events < MaxEvents
    /\ events' = events + 1
    /\ UNCHANGED session
    /\ ~busy
    /\ busy' = TRUE
    /\ Interactive
    /\ IF isPlayerReady
       THEN /\ pendingReq' = Inject(pendingReq, "SESSION_END_REQUEST",
                                    currentPlaybackTime)
            /\ hist' = Other(hist)
            /\ UNCHANGED <<timeouts, endAlert>>
       ELSE /\ timeouts' = handleFinalSessionEnd(timeouts, currentPlaybackTime)
            /\ endAlert' = TRUE
            /\ hist' = Exited(Terminated(hist, currentPlaybackTime))
            /\ UNCHANGED pendingReq
    /\ UNCHANGED <<phase, isLoading, videoData, userPrefs, sessionEndTime,
                   isPlayerReady, currentPlaybackTime, sessionTimeRemaining,
                   isFocused, appState, tickDue, store, writes, notice, now,
                   skipped, toggles>>
    /\ UNCHANGED playerBuilt
    /\ UNCHANGED reminder

\* an extension counted from the moment of the touch
ExtendedFromNow(prev) == now + ExtendMinutes * SecondsPerMinute

\* setSessionEndTime(prev => (prev || Date.now()) + 5 * 60 * 1000), prev set
Extended(prev) == prev + ExtendMinutes * SecondsPerMinute

\* the default duration added to the extension whatever its sign
NewDurationCompounded(d) == d + ExtendMinutes

\* (userPrefs.defaultSessionDuration > 0 ? userPrefs.defaultSessionDuration : 0) + 5
NewDuration(d) == (IF d > 0 THEN d ELSE 0) + ExtendMinutes

\* the Extend (+5m) button
handleExtendSession ==
    /\ events < MaxEvents
    /\ events' = events + 1
    /\ UNCHANGED session
    /\ ~busy
    /\ busy' = TRUE
    /\ Interactive /\ hist.extends < MaxExtends
    /\ IF sessionEndTime # NoTime
       THEN /\ sessionEndTime' = Extended(sessionEndTime)
            /\ notice' = "extended"
       ELSE IF userPrefs # None
       THEN /\ sessionEndTime' = now + NewDuration(userPrefs[1]) * SecondsPerMinute
            /\ notice' = "started"
       ELSE \* neither branch of the handler: nothing is set, nothing is shown
            UNCHANGED <<sessionEndTime, notice>>
    /\ UNCHANGED <<phase, isLoading, videoData, userPrefs, isPlayerReady,
                   currentPlaybackTime, isFocused>>
    /\ Render(timeouts, pendingReq, [Other(hist) EXCEPT !.extends = @ + 1], FALSE)
    /\ UNCHANGED <<appState, store, writes, endAlert, now, skipped, toggles>>
    /\ UNCHANGED playerBuilt
    /\ UNCHANGED reminder

\* history: the screen is left while the current debounced function has a
\* timeout pending
Left(h) ==
    LET pend == SelectSeq(timeouts, IsCur)
    IN  IF h.left = None /\ pend # <<>>
        THEN [h EXCEPT !.left = Some([pos |-> pend[1].pos, done |-> pend[1].done,
                                      nw |-> Len(writes)])]
        ELSE h

\* navigation.goBack() (OK of the 'Session Ended' alert, or the back button):
\* the screen unmounts, every effect cleanup runs, the WebView is destroyed.
\* Timeouts already scheduled stay scheduled.
GoBack ==
    /\ ~busy
    /\ Mounted /\ ~isLoading
    /\ phase' = "unmounted"
    /\ tickDue' = NoTime
    /\ pendingReq' = <<>>
    /\ timeouts' = Orphan(IF currentPlaybackTime > 0 /\ videoData # None
                          THEN debounce(timeouts, currentPlaybackTime, FALSE)
                          ELSE timeouts)
    /\ hist' = Other(Left(hist))
    \* the component's state and the alerts are gone with the screen
    /\ isPlayerReady' = FALSE
    /\ playerBuilt' = FALSE
    /\ currentPlaybackTime' = 0
    /\ sessionEndTime' = NoTime
    /\ sessionTimeRemaining' = 0
    /\ userPrefs' = None
    /\ isFocused' = FALSE
    /\ endAlert' = FALSE
    /\ busy' = FALSE
    /\ UNCHANGED <<isLoading, videoData, appState, store, writes, notice, now,
                   skipped, toggles>>
    /\ UNCHANGED <<events, session>>
    /\ UNCHANGED reminder

\* navigation.navigate('VideoPlayer', { videoId }) from the dashboard: a new
\* instance of the screen mounts for the same video; its effects run once and
\* fetchInitialData is in flight.  Timeouts of earlier instances stay scheduled.
Reopen ==
    /\ events < MaxEvents
    /\ events' = events + 1
    /\ phase = "unmounted" /\ appState = "active"
    /\ session < MaxSessions
    /\ session' = session + 1
    /\ phase' = "mounted"
    /\ isLoading' = TRUE
    /\ videoData' = None
    /\ isFocused' = TRUE
    /\ busy' = TRUE
    /\ hist' = Other(hist)
    /\ UNCHANGED <<userPrefs, sessionEndTime, isPlayerReady, currentPlaybackTime,
                   sessionTimeRemaining, appState, tickDue, timeouts, pendingReq,
                   store, writes, endAlert, notice, now, skipped, toggles>>
    /\ UNCHANGED playerBuilt
    /\ UNCHANGED reminder

\* another screen covers this one (blur) or uncovers it again (focus)
FocusChange ==
    /\ events < MaxEvents
    /\ events' = events + 1
    /\ UNCHANGED session
    /\ ~busy
    /\ busy' = TRUE
    /\ Mounted /\ toggles < MaxToggles
    /\ toggles' = toggles + 1
    /\ isFocused' = ~isFocused
    /\ UNCHANGED <<phase, isLoading, videoData, userPrefs, sessionEndTime,
                   isPlayerReady, currentPlaybackTime>>
    /\ Render(timeouts, pendingReq, Other(IF isFocused THEN Left(hist) ELSE hist), FALSE)
    /\ UNCHANGED <<appState, store, writes, endAlert, notice, now, skipped>>
    /\ UNCHANGED playerBuilt
    /\ UNCHANGED reminder

\* the AppState 'change' listener
AppStateChange(nextAppState) ==
    /\ events < MaxEvents
    /\ events' = events + 1
    /\ UNCHANGED session
    /\ ~busy
    /\ busy' = TRUE
    /\ Mounted /\ toggles < MaxToggles
    /\ nextAppState # appState
    /\ toggles' = toggles + 1
    /\ appState' = nextAppState
    /\ hist' = IF nextAppState = "background" /\ currentPlaybackTime > 0
                  /\ ~(isPlayerReady /\ WebViewMounted(isLoading, videoData))
               THEN [Backgrounded(Other(hist), currentPlaybackTime) EXCEPT
                        !.bg[1].ev = events + 1]
               ELSE Other(hist)
    /\ IF nextAppState = "background"
       THEN IF isPlayerReady /\ WebViewMounted(isLoading, videoData)
            THEN /\ pendingReq' = Inject(pendingReq, "TIME_UPDATE", NoFallback)
                 /\ UNCHANGED timeouts
            ELSE IF currentPlaybackTime > 0
            THEN /\ timeouts' = debounce(timeouts, currentPlaybackTime, FALSE)
                 /\ UNCHANGED pendingReq
            ELSE UNCHANGED <<timeouts, pendingReq>>
       ELSE UNCHANGED <<timeouts, pendingReq>>
    /\ UNCHANGED <<phase, isLoading, videoData, userPrefs, sessionEndTime,
                   isPlayerReady, currentPlaybackTime, sessionTimeRemaining,
                   isFocused, tickDue, store, writes, endAlert, notice, now,
                   skipped>>
    /\ UNCHANGED playerBuilt
    /\ UNCHANGED reminder

Next ==
    \/ \E reason \in {"noUser", "notFound", "error"} : FetchAbort(reason)
    \/ \E pref \in {None} \cup {Some(d) : d \in PrefDurations} : FetchOk(pref)
    \/ FetchPrefsFailed
    \/ PlayerReady
    \/ \E t \in Positions : TimeUpdate(t)
    \/ \E state \in {"PLAYING", "PAUSED", "ENDED"}, t \in Positions : StateChange(state, t)
    \/ PlayerError
    \/ \E data \in Payloads : BadMessage(data)
    \/ \E t \in Positions : BridgeRespond(t)
    \/ TimerTick
    \/ \E ok \in BOOLEAN : FlushTimeout(ok)
    \/ Advance
    \/ LongWait
    \/ handleSaveAndExit
    \/ handleExtendSession
    \/ GoBack
    \/ Reopen
    \/ FocusChange
    \/ \E nextAppState \in {"active", "background"} : AppStateChange(nextAppState)

Spec == Init /\ [][Next]_vars

\* ------------------------------------------------- uninterrupted playback
\* The first seconds of a session nobody touches: the record (duration 600)
\* and the preferences load, the player becomes ready and its interval posts
\* TIME_UPDATE, at most one per second; the player may report a state
\* change; the session timer ticks and debounce timeouts fire.
InitPlayback ==
    /\ Init
    /\ store # None /\ store[1].duration # 0

\* the next TIME_UPDATE of the player's interval
PeriodicUpdate(t) == now <= MaxPlay /\ handleTimeUpdate(t)

\* one second passes; history: it passed without a TIME_UPDATE although
\* the interval has posted one before
Elapse ==
    /\ Quiet
    /\ now < MaxPlay
    /\ now' = now + 1
    /\ busy' = FALSE
    /\ hist' = [hist EXCEPT !.gap = @ \/ (hist.tu # None /\ ~busy)]
    /\ UNCHANGED <<phase, isLoading, videoData, userPrefs, sessionEndTime,
                   isPlayerReady, playerBuilt, currentPlaybackTime,
                   sessionTimeRemaining, isFocused, appState, tickDue, timeouts,
                   pendingReq, store, writes, endAlert, notice, skipped, toggles,
                   events, session>>
    /\ UNCHANGED reminder

NextPlayback ==
    \/ FetchOk(Some(FallbackMinutes))
    \/ PlayerReady
    \/ \E t \in Positions : PeriodicUpdate(t)
    \/ \E state \in {"PLAYING", "PAUSED", "ENDED"}, t \in Positions : StateChange(state, t)
    \/ TimerTick
    \/ \E ok \in BOOLEAN : FlushTimeout(ok)
    \/ Elapse

SpecPlayback == InitPlayback /\ [][NextPlayback]_vars

\* ------------------------------------------- scheduleSessionNotification
\* Times in minutes.  A call: the outcome of requestNotificationPermissions
\* ("granted", "denied", or "throws" when the platform call rejects), the
\* session's scheduledFor, the clock read by new Date(), whether
\* scheduleNotificationAsync accepts the request; and what the call did: the
\* trigger it asked the platform for, the id it returned, whether it threw.
Permissions == {"granted", "denied", "throws"}

Calls ==
    [permission : Permissions, scheduledFor : 0..MaxScheduled, clock : 0..MaxClock,
     accepts : BOOLEAN, done : {FALSE}, asked : {None}, id : {None},
     threw : {FALSE}]

\* a reminder always five minutes ahead of the session
TriggerTimeAhead(scheduledFor, clock) == Some(scheduledFor - ReminderLead)

\* lines 63-81: the trigger time, None for the early return null
TriggerTime(scheduledFor, clock) ==
    LET ahead == scheduledFor - ReminderLead
        triggerTime == IF ahead < clock THEN scheduledFor ELSE ahead
    IN  IF triggerTime <= clock
        THEN (IF scheduledFor > clock THEN Some(scheduledFor) ELSE None)
        ELSE Some(triggerTime)

\* the whole function on one call
Scheduled(c) ==
    IF c.permission = "throws"
    THEN [c EXCEPT !.done = TRUE, !.threw = TRUE]
    ELSE IF c.permission = "denied"
    THEN [c EXCEPT !.done = TRUE]
    ELSE LET trigger == TriggerTime(c.scheduledFor, c.clock)
         IN  IF trigger = None
             THEN [c EXCEPT !.done = TRUE]
             ELSE \* try { scheduleNotificationAsync } catch (e) { return null }
                  [c EXCEPT !.done = TRUE, !.asked = trigger,
                            !.id = IF c.accepts THEN Some("id") ELSE None]

InitReminder ==
    /\ InitScreen /\ store = None
    /\ reminder \in {Some(c) : c \in Calls}

scheduleSessionNotification ==
    /\ reminder # None /\ ~reminder[1].done
    /\ reminder' = Some(Scheduled(reminder[1]))
    /\ UNCHANGED <<phase, isLoading, videoData, userPrefs, sessionEndTime,
                   isPlayerReady, playerBuilt, currentPlaybackTime,
                   sessionTimeRemaining, isFocused, appState, tickDue, timeouts,
                   pendingReq, store, writes, endAlert, notice, now, skipped,
                   busy, toggles, events, session, hist>>

NextReminder == scheduleSessionNotification

SpecReminder == InitReminder /\ [][NextReminder]_vars

\* ================================================================ claims
HasDuration == videoData # None /\ videoData[1].duration > 0
Drained == timeouts = <<>> /\ pendingReq = <<>>
WritesAfter(n) == (n + 1)..Len(writes)

\* C1: in one Running period of the session timer the expiry signal (the
\* current-time request answered by SESSION_END_REQUEST) is emitted at most
\* once: after it no further tick emits it again.
C1_ExpiryOnce == hist.expirySignals <= 1

\* C2: once termination has been requested with final position p, at most
\* one progress write is issued and every write issued carries p.
C2_FinalWriteOnce ==
    (hist.term # None /\ HasDuration) =>
        /\ Len(writes) <= hist.term[1].nw + 1
        /\ \A i \in WritesAfter(hist.term[1].nw) :
               writes[i].lastPosition = Floor(hist.term[1].pos)

\* C3: when the only events are TimeUpdate events within one debounce
\* window, at most one write is issued and it carries the position of the
\* last TimeUpdate.
C3_DebounceLast ==
    (hist.tu # None /\ ~hist.other /\ HasDuration) =>
        /\ Len(writes) <= hist.tu[1].nw + 1
        /\ \A i \in WritesAfter(hist.tu[1].nw) :
               writes[i].lastPosition = Floor(hist.tu[1].last)

\* the second at which the debounced call behind the i-th write was made
ArmedAt(i) == writes[i].lastUpdated - DebounceDelay

\* C4: the progress persisted for StateChanged(Ended, t), that is the first
\* write whose debounced call was made at or after that event, has position
\* t and completed = true, whatever follows within the debounce window.
C4_EndedForced ==
    (hist.ended # None /\ HasDuration) =>
        \A i \in 1..Len(writes) :
            (/\ ArmedAt(i) >= hist.ended[1].at
             /\ \A j \in 1..(i - 1) : ArmedAt(j) < hist.ended[1].at) =>
                /\ writes[i].lastPosition = Floor(hist.ended[1].pos)
                /\ writes[i].completed

\* C5: every written record with completionPercentage >= 98 is completed.
C5_CompletedAtThreshold ==
    \A i \in 1..Len(writes) :
        writes[i].completionPercentage >= CompleteThreshold * 10 => writes[i].completed

\* C6: in every written record completionPercentage lies in [0, 100] and is
\* min(100, 100 * lastPosition / duration) of the record's own lastPosition,
\* to one decimal.
C6_PercentageDerived ==
    \A i \in 1..Len(writes) :
        /\ writes[i].completionPercentage \in 0..1000
        /\ writes[i].completionPercentage =
               CompletionPercentage(writes[i].lastPosition * 10, store[1].duration)

\* C7: two consecutive writes of a session are at least one debounce
\* interval apart; stated for the writes of the first session, before the
\* video is opened again.
C7_OneWritePerInterval ==
    session = 1 =>
        \A i \in 1..(Len(writes) - 1) :
            writes[i + 1].lastUpdated - writes[i].lastUpdated >= DebounceDelay

\* C8: Save & Exit before the player is ready terminates at once with the
\* in-memory position and that position is saved exactly once.
C8_ExitSavesOnce ==
    (hist.exit # None /\ HasDuration) =>
        /\ hist.term # None
        /\ Len(writes) <= hist.exit[1].nw + 1
        /\ \A i \in WritesAfter(hist.exit[1].nw) :
               writes[i].lastPosition = Floor(hist.exit[1].pos)
        /\ Drained => Len(writes) = hist.exit[1].nw + 1

\* C9: after the timer expired on the focused screen, once the Bridge has
\* answered and every debounce timeout has run, termination was invoked, the
\* user was notified and the final progress was written; stated for the
\* session in which the timer expired.
C9_TimeoutFlush ==
    (hist.expirySignals > 0 /\ Mounted /\ Drained /\ session = 1) =>
        /\ hist.term # None
        /\ endAlert
        /\ Len(writes) > hist.term[1].nw

\* C10: a write that was pending when the screen was left reaches the store
\* with the pending position and completed flag; stated for a pending write
\* that carries completed = true (the last call of the debounced function
\* came from Ended or from termination).
C10_LeaveFlushes ==
    (hist.left # None /\ HasDuration /\ Drained) =>
        (hist.left[1].done =>
            \E i \in WritesAfter(hist.left[1].nw) :
                /\ writes[i].lastPosition = Floor(hist.left[1].pos)
                /\ writes[i].completed)

\* C11: once the screen has been released no resource of the session is
\* active: the timer interval is cleared and no debounce timeout is scheduled
\* (the AppState listener is removed with the screen: AppStateChange needs
\* Mounted).
C11_Released ==
    phase = "unmounted" => (tickDue = NoTime /\ timeouts = <<>>)

\* C12: after a session has been left, no progress write that originates
\* from it is issued once a later session for the same video has loaded the
\* record.
C12_SingleWriter == ~hist.foreign

\* C13: the session timer never ticks while the screen is blurred or the
\* app is not in the foreground ("background" stands for the states the
\* listener matches with /inactive|background/).
C13_NoTickInactive ==
    [][TimerTick => (isFocused /\ appState = "active")]_vars

\* C14: whenever the displayed remaining time is set on the mounted screen
\* (a tick, or the timer effect running again on start, extend or resume) it
\* is max(0, endAt - now) of the wall clock, and endAt changes only when the
\* session starts, is extended or is released with the screen.
C14_WallClock ==
    [][/\ TimerTick => sessionTimeRemaining' = Max(0, sessionEndTime - now)
       /\ (sessionTimeRemaining' # sessionTimeRemaining /\ phase' = "mounted") =>
              sessionTimeRemaining' = Max(0, sessionEndTime' - now')
       /\ sessionEndTime' # sessionEndTime =>
              \/ isLoading /\ ~isLoading'
              \/ hist'.extends = hist.extends + 1
              \/ phase' = "unmounted"]_vars

\* the session was suspended and resumed seconds later, and the running timer
\* shows the seconds left on the wall clock
C14_Resumed ==
    /\ toggles >= 2 /\ isFocused /\ appState = "active" /\ Mounted
    /\ tickDue # NoTime /\ now >= 2
    /\ sessionTimeRemaining = sessionEndTime - now
    /\ sessionTimeRemaining < FallbackMinutes * SecondsPerMinute

\* C15: Extend on a running timer moves endAt by exactly 300 seconds and
\* changes neither the in-memory position, nor the pending debounce
\* timeouts, nor the local or persisted progress, nor the writes issued.
C15_ExtendAdds300 ==
    [][(hist'.extends = hist.extends + 1 /\ sessionEndTime # NoTime) =>
          /\ sessionEndTime' = sessionEndTime + 300
          /\ currentPlaybackTime' = currentPlaybackTime
          /\ timeouts' = timeouts
          /\ videoData' = videoData
          /\ store' = store
          /\ writes' = writes]_vars

\* two extends of a session started with the default 30 minutes, while a
\* debounced write of the position is pending: endAt is 600 seconds later
C15_TwiceExtended ==
    /\ hist.extends = 2 /\ notice = "extended" /\ Mounted
    /\ currentPlaybackTime > 0 /\ timeouts # <<>>
    /\ \E t0 \in 0..now :
           sessionEndTime = t0 + FallbackMinutes * SecondsPerMinute + 600

\* C16: Extend on an idle timer (endAt unset, preferences loaded) starts
\* the timer with endAt = now + 5 minutes: the default duration is not added.
C16_ExtendIdleStarts ==
    [][(hist'.extends = hist.extends + 1 /\ sessionEndTime = NoTime
           /\ userPrefs # None) =>
          /\ sessionEndTime' = now + 300
          /\ tickDue' = now + TickPeriod
          /\ sessionTimeRemaining' = 300]_vars

\* a session whose default duration is not positive was started by Extend
C16_StartedByExtend ==
    /\ notice = "started" /\ hist.extends = 1 /\ Mounted
    /\ userPrefs # None /\ userPrefs[1] <= 0
    /\ sessionEndTime = now + 300 /\ tickDue = now + TickPeriod

\* C17: every call of the Extend control, with the timer running or idle,
\* leaves the timer running (endAt set, the interval scheduled) with a later
\* endAt than before, and shows the user a notice.
C17_ExtendSucceeds ==
    [][hist'.extends = hist.extends + 1 =>
          /\ sessionEndTime' # NoTime
          /\ sessionEndTime' > sessionEndTime
          /\ tickDue' = now + TickPeriod
          /\ notice' \in {"extended", "started"}]_vars

\* Extend was used on the idle timer and again on the running one
C17_IdleThenRunning ==
    /\ hist.extends = 2 /\ notice = "extended" /\ Mounted
    /\ userPrefs # None /\ userPrefs[1] <= 0
    /\ sessionEndTime # NoTime /\ tickDue # NoTime

\* C18: a Bridge message that does not parse, or parses to a value without
\* a known type, is dropped: the handler returns (the screen lives on) and
\* the ready flag, the in-memory position, endAt, the timer, the pending
\* debounce timeouts, the local and the persisted progress are unchanged.
C18_MalformedDropped ==
    [][(\E data \in Payloads : BadMessage(data)) =>
          /\ phase' = phase
          /\ isPlayerReady' = isPlayerReady
          /\ currentPlaybackTime' = currentPlaybackTime
          /\ sessionEndTime' = sessionEndTime
          /\ tickDue' = tickDue
          /\ timeouts' = timeouts
          /\ pendingReq' = pendingReq
          /\ videoData' = videoData
          /\ store' = store
          /\ writes' = writes]_vars

\* a malformed message arrived at a ready player with a running timer and a
\* debounced write pending, and all of them are still there
C18_DroppedWhilePending ==
    /\ hist.dropped /\ busy /\ events = 1 /\ Mounted /\ isPlayerReady
    /\ currentPlaybackTime > 0 /\ timeouts # <<>>
    /\ sessionEndTime # NoTime /\ tickDue # NoTime

\* C19: handling a player error only shows the notice: the persisted and
\* the local progress, the pending debounce timeouts, the in-memory position,
\* the ready flag and the timer are unchanged and the screen stays mounted.
C19_ErrorOnlyNotice ==
    [][(notice' = "playerError" /\ notice # "playerError") =>
          /\ phase' = phase
          /\ endAlert' = endAlert
          /\ isPlayerReady' = isPlayerReady
          /\ currentPlaybackTime' = currentPlaybackTime
          /\ sessionEndTime' = sessionEndTime
          /\ sessionTimeRemaining' = sessionTimeRemaining
          /\ tickDue' = tickDue
          /\ timeouts' = timeouts
          /\ pendingReq' = pendingReq
          /\ videoData' = videoData
          /\ store' = store
          /\ writes' = writes]_vars

\* after a player error the session went on: a later TimeUpdate set the
\* in-memory position and armed the debounced write
C19_GoesOnAfterError ==
    /\ notice = "playerError" /\ Mounted /\ busy
    /\ hist.tu # None /\ hist.tu[1].first = now
    /\ currentPlaybackTime = hist.tu[1].last
    /\ \E i \in 1..Len(timeouts) : timeouts[i].cur /\ timeouts[i].due = now + DebounceDelay

\* C20: a progress write the store rejects is issued once and not scheduled
\* again, leaves the local copy of the record and the stored record as they
\* were, and changes nothing else of the session.
C20_FailureNotRetried ==
    [][FlushTimeout(FALSE) =>
          /\ Len(writes') = Len(writes) + 1
          /\ timeouts' = Tail(timeouts)
          /\ videoData' = videoData
          /\ store' = store
          /\ phase' = phase
          /\ currentPlaybackTime' = currentPlaybackTime
          /\ tickDue' = tickDue
          /\ pendingReq' = pendingReq]_vars

\* the only write so far was rejected in an earlier second (the stored and
\* the local progress are not the written one), no timeout was left behind
\* by it, and a TimeUpdate has just been handled
C20_GoesOnAfterFailure ==
    /\ Mounted /\ videoData # None /\ Len(writes) = 1
    /\ writes[1].lastUpdated < now
    /\ store[1].progress # writes[1]
    /\ videoData[1].progress = store[1].progress
    /\ hist.tu # None /\ hist.tu[1].first = now
    /\ currentPlaybackTime = hist.tu[1].last
    /\ Len(timeouts) = 1 /\ timeouts[1].due = now + DebounceDelay

\* C21: every current-time request sent to the Bridge is answered with
\* exactly one event of the requested type, carrying the player's position or
\* the caller's fallback, so no request is lost: the step that runs a
\* requested script ends with the event handled (the termination invoked for
\* SESSION_END_REQUEST, the save armed for TIME_UPDATE).
C21_RequestAnswered ==
    [][(\E t \in Positions : BridgeRespond(t)) =>
         LET req == Head(pendingReq)
         IN  /\ req.type = "SESSION_END_REQUEST" => (endAlert' /\ hist'.term # None)
             /\ req.type = "TIME_UPDATE" =>
                   \E i \in 1..Len(timeouts') :
                       timeouts'[i].cur /\ timeouts'[i].due = now + DebounceDelay]_vars

\* C22: when the app goes to the background during a session with a known
\* position, the position taken then (the player's reading, or the in-memory
\* position when the player is not ready) is eventually carried by a progress
\* write: once nothing is pending any more, and no other event has happened,
\* a write whose debounced call was made at or after that moment has it.
C22_BackgroundFlush ==
    (/\ hist.bg # None /\ events = hist.bg[1].ev
     /\ Mounted /\ isFocused /\ HasDuration /\ Drained) =>
        \E i \in 1..Len(writes) :
            /\ ArmedAt(i) >= hist.bg[1].at
            /\ writes[i].lastPosition = Floor(hist.bg[1].pos)

\* C23: after a precondition failure at session start (no authenticated
\* user, no video record) the screen is gone and its session never began: no
\* end time and no interval, the player page never existed and was never
\* asked anything, no save of this screen is pending, and nothing was written.
C23_AbortClean ==
    (phase = "unmounted" /\ videoData = None /\ notice \in {"noUser", "notFound"}) =>
        /\ sessionEndTime = NoTime /\ tickDue = NoTime
        /\ ~WebViewMounted(isLoading, videoData)
        /\ ~isPlayerReady /\ ~playerBuilt /\ pendingReq = <<>>
        /\ \A i \in 1..Len(timeouts) : timeouts[i].ses # session
        /\ session = 1 => writes = <<>>

\* the record does not exist, the screen was left and a debounce delay later
\* still nothing has been written
C23_AbortedLongAgo ==
    /\ phase = "unmounted" /\ videoData = None /\ notice = "notFound" /\ store = None
    /\ session = 1 /\ now >= DebounceDelay /\ writes = <<>>

\* C24: the step that handles Ready leaves the player marked ready and has
\* issued a seek exactly when the last-known position is greater than 0, to
\* that position; the ready flag is cleared only when the screen is left.
C24_ReadySeeks ==
    [][/\ PlayerReady =>
            /\ isPlayerReady'
            /\ hist'.seek # None <=> currentPlaybackTime > 0
            /\ hist'.seek # None => hist'.seek[1] = currentPlaybackTime
       /\ (isPlayerReady /\ ~isPlayerReady') => phase' = "unmounted"]_vars

\* Ready was handled a second time in the session, after the page was loaded
\* again, and the seek went to the position of the last TimeUpdate
C24_ReadyAgain ==
    /\ Mounted /\ session = 1 /\ hist.readies = 2 /\ isPlayerReady /\ playerBuilt
    /\ hist.tu # None /\ hist.seek = Some(hist.tu[1].last)
    /\ currentPlaybackTime = hist.tu[1].last

\* C26: the in-memory position is the currentTime of the latest TimeUpdate,
\* larger or smaller than the one before, or the persisted position when
\* there was none; nothing else moves it while the screen is up; and the
\* fallback handed over for a termination is the in-memory position.
C26_LatestPosition ==
    [][/\ \A t \in Positions : TimeUpdate(t) => currentPlaybackTime' = t
       /\ (currentPlaybackTime' # currentPlaybackTime /\ phase' = "mounted") =>
              \/ \E t \in Positions : TimeUpdate(t) /\ currentPlaybackTime' = t
              \/ \E t \in Positions : BridgeRespond(t) /\ currentPlaybackTime' = t
              \/ /\ isLoading /\ ~isLoading'
                 /\ currentPlaybackTime' = store[1].progress.lastPosition * 10
       /\ Len(pendingReq') > Len(pendingReq) =>
              pendingReq'[Len(pendingReq')].fallback
                  \in {NoFallback, currentPlaybackTime'}
       /\ (handleSaveAndExit /\ ~isPlayerReady) =>
              \E i \in 1..Len(timeouts') :
                  /\ timeouts'[i].cur /\ timeouts'[i].due = now + DebounceDelay
                  /\ timeouts'[i].pos = currentPlaybackTime]_vars

\* a TimeUpdate with a smaller time than the one before was taken: the
\* position is the later, smaller one while a save of the earlier one is armed
C26_WentBack ==
    /\ Mounted /\ events = 2 /\ hist.tu # None
    /\ hist.tu[1].last = 5878 /\ currentPlaybackTime = 5878
    /\ \E i \in 1..Len(timeouts) : timeouts[i].pos = 5950

\* C28: at every moment of a session at most one debounce timeout of that
\* session is pending, also after the debounced function was re-created.
C28_OneTimeout ==
    Mounted => Cardinality({i \in 1..Len(timeouts) : timeouts[i].ses = session}) <= 1

\* C29: when the debounced save fires for a record of duration 0, with no
\* record loaded, or from a function created while the screen was not
\* focused, no write is issued and the local copy stays as it is, whatever
\* armed the save (termination included).
C29_GuardedSave ==
    [][(timeouts # <<>> /\ \E ok \in BOOLEAN : FlushTimeout(ok)) =>
         LET r == Head(timeouts)
         IN  (~r.vd \/ ~r.foc \/ store[1].duration = 0) =>
                 /\ writes' = writes
                 /\ store' = store
                 /\ videoData' = videoData]_vars

\* the session of a record of duration 0 was terminated, the save armed by
\* the termination has fired and nothing was written
C29_TerminationSkipped ==
    /\ Mounted /\ endAlert /\ hist.term # None /\ session = 1
    /\ store # None /\ store[1].duration = 0
    /\ timeouts = <<>> /\ writes = <<>> /\ now >= DebounceDelay
    /\ videoData = store

\* the first session of a 600 s video stored at position 0, in which the
\* player's Ended at 595.0 s is the last event so far (no later message,
\* touch, focus or app-state change, no expiry of the session)
EndedAt595 ==
    /\ Mounted /\ session = 1 /\ hist.term = None
    /\ store # None /\ store[1].duration = 600 /\ hist.opened = Some(0)
    /\ hist.ended # None /\ hist.ended[1].pos = 5950 /\ hist.ended[1].ev = events

\* C25: duration 600 s, stored position 0, Ended reported at 595 and nothing
\* after it: every progress record written for it or after it is
\* lastPosition 595, completionPercentage 99.2, completed true.
C25_EndedNearEnd ==
    EndedAt595 =>
        \A i \in 1..Len(writes) :
            ArmedAt(i) >= hist.ended[1].at =>
                /\ writes[i].lastPosition = 595
                /\ writes[i].completionPercentage = 992
                /\ writes[i].completed

\* C27: while the player's interval delivers a TimeUpdate in every second
\* and the screen stays focused, a progress write is issued within two
\* debounce delays of the first TimeUpdate.
C27_NotPostponed ==
    (/\ Mounted /\ isFocused /\ HasDuration
     /\ hist.tu # None /\ ~hist.gap /\ hist.ended = None
     /\ now - hist.tu[1].first >= 2 * DebounceDelay) =>
        Len(writes) > hist.tu[1].nw

====
